---- MODULE Spec2Model ----
(***************************************************************************)
(* Model of the Metaphor-agents core: the combined rate limiter            *)
(* (src/src/rate_limiter.py), the request gateway                          *)
(* (src/src/gemini_client.py) and the two-agent pipeline                   *)
(* (src/src/metaphor_analyzer.py).                                         *)
(*                                                                         *)
(* Time is the wall clock read by datetime.now(), in whole seconds counted *)
(* from midnight of the day the limiter is constructed.                    *)
(***************************************************************************)
EXTENDS Integers, Sequences, FiniteSets, TLC

VARIABLES
    clock,             \* the wall clock, datetime.now()
    request_times,     \* RateLimiter.request_times (deque, oldest first)
    daily_requests,    \* RateLimiter.daily_requests
    daily_reset_time,  \* RateLimiter.daily_reset_time
    model_requests,    \* RateLimiter.model_requests
    granted,           \* history: return instants of the admissions of the trailing minute
    since_reset,       \* history: admissions granted since the last daily reset
    last,              \* history: the most recent limiter call and the state it found
    pc,                \* where the current analyze_text call stands
    candidates,        \* analyze_text's local candidates
    pause_time,        \* analyze_text's local pause_time
    result,            \* the dict analyze_text returned
    events,            \* history: admissions, model calls and pauses of the current run
    replies,           \* history: the model responses of the current run
    lock,              \* RateLimiter.lock: the thread holding it, 0 when free
    tpc,               \* concurrent callers: each thread's position in its call
    tnow,              \* concurrent callers: each thread's local now
    twake,             \* concurrent callers: the instant each thread's sleep ends
    response_text,     \* the text handed to extract_json_from_response
    parsed_json        \* what extract_json_from_response made of it

limiterVars == <<clock, request_times, daily_requests, daily_reset_time,
                 model_requests, granted, since_reset, last>>

pipeVars == <<pc, candidates, pause_time, result, events, replies>>

threadVars == <<lock, tpc, tnow, twake>>

jsonVars == <<response_text, parsed_json>>

vars == <<clock, request_times, daily_requests, daily_reset_time,
          model_requests, granted, since_reset, last,
          pc, candidates, pause_time, result, events, replies,
          lock, tpc, tnow, twake, response_text, parsed_json>>

----------------------------------------------------------------------------
(* Program constants                                                       *)

RPM_20 == 15
RPD_20 == 200
RPM_25 == 10
RPD_25 == 250
TPM_20 == 1000000
TPM_25 == 250000
WindowSeconds == 60
SleepBuffer == 1
DaySeconds == 86400
MinPause == 6
PauseBase == 60

Min(a, b) == IF a <= b THEN a ELSE b
Max(a, b) == IF a >= b THEN a ELSE b

COMBINED_RPM == Min(RPM_20, RPM_25)
COMBINED_RPD == Min(RPD_20, RPD_25)
COMBINED_TPM == Min(TPM_20, TPM_25)

Agent1Name == "gemini-2.0-flash"
Agent2Name == "gemini-2.5-flash"
KnownModels == {Agent1Name, Agent2Name}
ModelNames == KnownModels \cup {"other-model"}

----------------------------------------------------------------------------
(* Bounds of the model                                                     *)

StartTime == 86370       \* time of day at which the limiter is constructed
Horizon == 61            \* seconds of wall clock explored after StartTime
MaxWindow == 21          \* longest rolling window explored
DayStart == 85119        \* construction time of the day-long runs
DayHorizon == 1350       \* seconds of wall clock explored by the day-long runs

PipeStart == 86300       \* time of day at which the analyzer is at rest
PipeHorizon == 130       \* seconds of wall clock explored by the pipeline runs
PriorRuns == 99          \* complete two-agent runs made earlier in the day
NumThreads == 2          \* threads calling the limiter at the same time
ThreadHorizon == 61      \* seconds of wall clock explored by the concurrent callers
MaxItem == 2             \* distinct well-formed items a model response may list
MaxList == 2             \* longest list a model response may hold
MaxText == 4             \* longest response text, in lexemes
IdleHorizon == 172860    \* seconds of wall clock explored by the idling caller
MaxBurst == 3            \* calls the idling caller makes within one minute
LiveHorizon == 250       \* seconds of wall clock explored by the runs that must end

TickDeltas == {30, 59, WindowSeconds}
DayDeltas == {WindowSeconds + SleepBuffer}

----------------------------------------------------------------------------
(* RateLimiter                                                             *)

NextMidnight(now) == (now \div DaySeconds) * DaySeconds + DaySeconds

ZeroCounts == [k \in KnownModels |-> 0]

(* The prune that also drops the timestamps exactly one window old.       *)
RECURSIVE PruneThrough(_, _)
PruneThrough(times, now) ==
    IF times # <<>> /\ Head(times) <= now - WindowSeconds
    THEN PruneThrough(Tail(times), now)
    ELSE times

RECURSIVE PruneOld(_, _)
PruneOld(times, now) ==
    IF times # <<>> /\ Head(times) < now - WindowSeconds
    THEN PruneOld(Tail(times), now)
    ELSE times

(* rpm_used as get_usage_summary would report it at instant now.           *)
RpmUsed(times, now) == Len(PruneOld(times, now))

(* The reset test that misses the reset instant itself.                    *)
ResetDueLate(now, reset) == now > reset

ResetDue(now, reset) == now >= reset

(* The reset that forgets to zero the counter.                             *)
DailyKeptAtReset(due, daily) == daily

DailyAfterReset(due, daily) == IF due THEN 0 ELSE daily

(* The per-model counters zeroed by every call, reset due or not.          *)
CountsZeroedAlways(due, counts) == ZeroCounts

(* The reset that forgets the per-model counters.                          *)
CountsKeptAtReset(due, counts) == counts

CountsAfterReset(due, counts) == IF due THEN ZeroCounts ELSE counts

(* The daily check that lets one request too many through.                *)
QuotaReachedLate(daily) == daily > COMBINED_RPD

QuotaReached(daily) == daily >= COMBINED_RPD

WaitTime(times, now) == WindowSeconds - (now - Head(times))

SleepSeconds(times, now) ==
    IF Len(times) >= COMBINED_RPM /\ WaitTime(times, now) > 0
    THEN WaitTime(times, now) + SleepBuffer
    ELSE 0

Stamp(now, woke) == now

(* The tracking that counts no model.                                      *)
TrackNothing(counts, model) == counts

Track(counts, model) ==
    IF model \in DOMAIN counts
    THEN [counts EXCEPT ![model] = @ + 1]
    ELSE counts

RECURSIVE Trailing(_, _)
Trailing(times, now) ==
    IF times # <<>> /\ Head(times) <= now - WindowSeconds
    THEN Trailing(Tail(times), now)
    ELSE times

NoCall == [op |-> "none", model |-> "", now |-> 0, ret |-> 0, outcome |-> "",
           window |-> <<>>, daily |-> 0, reset |-> 0, counts |-> ZeroCounts,
           used |-> 0, summary |-> <<>>, prior |-> <<>>, strangers |-> 0]

Call(op, model, now) ==
    [op |-> op, model |-> model, now |-> now, ret |-> now, outcome |-> "",
     window |-> request_times, daily |-> daily_requests,
     reset |-> daily_reset_time, counts |-> model_requests, used |-> 0,
     summary |-> <<>>, prior |-> <<>>, strangers |-> last.strangers]

NoResult == [returned |-> FALSE]

NotParsed == [called |-> FALSE]

(* wait_if_needed(model) called at instant now, the whole call: the lock   *)
(* is held from the read of the clock to the return, the sleep included.   *)
(* last.strangers counts the admissions granted since the last daily reset *)
(* to names that are not among the two recognized models.                  *)
WaitIfNeeded(model, now, limit) ==
    LET due   == ResetDue(now, daily_reset_time)
        daily == DailyAfterReset(due, daily_requests)
        reset == IF due THEN NextMidnight(now) ELSE daily_reset_time
        cnts  == CountsAfterReset(due, model_requests)
        pre   == Call("admit", model, now)
    IN  IF QuotaReached(daily)
        THEN /\ daily_requests' = daily
             /\ daily_reset_time' = reset
             /\ model_requests' = cnts
             /\ since_reset' = IF due THEN 0 ELSE since_reset
             /\ clock' = now
             /\ granted' = Trailing(granted, now)
             /\ UNCHANGED <<request_times, threadVars, jsonVars>>
             /\ last' = [pre EXCEPT !.ret = now, !.outcome = "quota",
                                     !.strangers = IF due THEN 0 ELSE @]
        ELSE LET kept  == PruneOld(request_times, now)
                 sleep == SleepSeconds(kept, now)
                 woke  == now + sleep
             IN  /\ woke <= limit
                 /\ Len(kept) < MaxWindow
                 /\ clock' = woke
                 /\ request_times' = Append(kept, Stamp(now, woke))
                 /\ daily_requests' = daily + 1
                 /\ daily_reset_time' = reset
                 /\ model_requests' = Track(cnts, model)
                 /\ granted' = Trailing(Append(granted, woke), woke)
                 /\ since_reset' = (IF due THEN 0 ELSE since_reset) + 1
                 /\ last' = [pre EXCEPT
                                !.ret = woke, !.outcome = "admitted",
                                !.strangers = (IF due THEN 0 ELSE @)
                                    + (IF model \in KnownModels THEN 0 ELSE 1)]
                 /\ UNCHANGED <<threadVars, jsonVars>>

(* The dict get_usage_summary returns.                                     *)
UsageSummary(times, daily, counts) ==
    [combined |-> [rpm_used |-> Len(times), rpm_limit |-> COMBINED_RPM,
                   rpd_used |-> daily, rpd_limit |-> COMBINED_RPD,
                   tpm_limit |-> COMBINED_TPM],
     by_model |-> counts]

(* get_usage_summary() called at instant now, with no other caller active. *)
(* last.prior holds the summary of the call before when that call was a    *)
(* get_usage_summary made at the same instant.                             *)
GetUsageSummary(now) ==
    LET kept == PruneOld(request_times, now)
        dict == UsageSummary(kept, daily_requests, model_requests)
    IN  /\ request_times' = kept
        /\ last' = [Call("summary", "", now) EXCEPT
                        !.outcome = "returned",
                        !.used = dict.combined.rpm_used,
                        !.summary = <<dict>>,
                        !.prior = IF last.op = "summary" /\ last.now = now
                                  THEN last.summary ELSE <<>>]
        /\ clock' = now
        /\ granted' = Trailing(granted, now)
        /\ UNCHANGED <<daily_requests, daily_reset_time, model_requests,
                       since_reset, threadVars, jsonVars>>

(* The wall clock moves on between calls.                                  *)
Tick(d, limit) ==
    /\ clock + d <= limit
    /\ clock' = clock + d
    /\ granted' = Trailing(granted, clock + d)
    /\ UNCHANGED <<request_times, daily_requests, daily_reset_time,
                   model_requests, since_reset, last, threadVars, jsonVars>>

Threads == 1..NumThreads

(* The analyzer and its limiter at rest at instant start, after runs       *)
(* complete two-agent runs made since midnight and more than a minute ago; *)
(* runs = 0 is the state RateLimiter.__init__ leaves.                      *)
InitAt(start, runs) ==
    /\ clock = start
    /\ request_times = <<>>
    /\ daily_requests = 2 * runs
    /\ daily_reset_time = NextMidnight(start)
    /\ model_requests = [k \in KnownModels |-> runs]
    /\ granted = <<>>
    /\ since_reset = 2 * runs
    /\ last = NoCall
    /\ pc = "Idle"
    /\ candidates = <<>>
    /\ pause_time = 0
    /\ result = NoResult
    /\ events = <<>>
    /\ replies = <<>>
    /\ lock = 0
    /\ tpc = [t \in Threads |-> "idle"]
    /\ tnow = [t \in Threads |-> 0]
    /\ twake = [t \in Threads |-> 0]
    /\ response_text = <<>>
    /\ parsed_json = NotParsed

----------------------------------------------------------------------------
(* Model responses                                                         *)
(*                                                                         *)
(* A response is what model.generate_content and clean_and_parse_json make *)
(* of one call: a transport error, text with no JSON object in it, JSON    *)
(* that is not an object, or an object whose list key (candidates for      *)
(* agent 1, metaphors for agent 2) is missing, is not a list, or is a list *)
(* of items.  Item 0 stands for an item without the text and context keys, *)
(* a positive number for a well-formed item.                               *)

ListsUpTo(n) == UNION {[1..k -> 0..MaxItem] : k \in 0..n}

FourCandidates == <<1, 2, 3, 4>>
TwoApproved == <<3, 1>>

Response(shape, list) == [shape |-> shape, list |-> list]

Responses(lists) ==
    {Response(sh, <<>>) : sh \in {"error", "none", "nondict", "missing", "null"}}
        \cup {Response("list", l) : l \in lists}

Agent1Responses == Responses(ListsUpTo(MaxList) \cup {FourCandidates})
Agent2Responses == Responses(ListsUpTo(MaxList) \cup {TwoApproved})

CallSeconds == {1}
IdleDeltas == {WindowSeconds}

WellFormed(list) == \A i \in 1..Len(list) : list[i] # 0

----------------------------------------------------------------------------
(* json_utils.extract_json_from_response                                   *)
(*                                                                         *)
(* A text is a sequence of lexemes: the six structural characters of JSON, *)
(* the digit 1, the string literal "k" (quotes included), a space, a       *)
(* letter of prose x, and the two fences of a code block: three backticks  *)
(* followed by json, and three backticks alone.                            *)

Fence == "fence"
FenceJson == "fence-json"
Space == " "

Lexemes == {"{", "}", "[", "]", ",", ":", "1", "k", "x", Space, FenceJson, Fence}

Texts == UNION {[1..n -> Lexemes] : n \in 0..MaxText}

Slice(s, from, to) == SubSeq(s, from, to)

RECURSIVE SkipSpace(_, _)
SkipSpace(s, i) ==
    IF i <= Len(s) /\ s[i] = Space THEN SkipSpace(s, i + 1) ELSE i

RECURSIVE SkipDigits(_, _)
SkipDigits(s, i) ==
    IF i <= Len(s) /\ s[i] = "1" THEN SkipDigits(s, i + 1) ELSE i

RECURSIVE LastNonSpace(_, _)
LastNonSpace(s, i) ==
    IF i >= 1 /\ s[i] = Space THEN LastNonSpace(s, i - 1) ELSE i

(* str.strip()                                                             *)
Strip(s) == Slice(s, SkipSpace(s, 1), LastNonSpace(s, Len(s)))

(* str.find(sub, start) for one-lexeme substrings, by 1-based position;    *)
(* 0 when there is none (-1 in Python).                                     *)
RECURSIVE Find(_, _, _)
Find(s, subs, i) ==
    IF i > Len(s) THEN 0
    ELSE IF s[i] \in subs THEN i
    ELSE Find(s, subs, i + 1)

(* The JSON grammar: each operator takes the position where its phrase     *)
(* starts and gives the position after it, 0 when the phrase is malformed. *)
RECURSIVE ParseValue(_, _)
RECURSIVE ParseElements(_, _)
RECURSIVE ParseMembers(_, _)

ParseValue(s, i) ==
    LET j == SkipSpace(s, i)
    IN  IF j > Len(s) THEN 0
        ELSE IF s[j] = "1" THEN SkipDigits(s, j)
        ELSE IF s[j] = "k" THEN j + 1
        ELSE IF s[j] = "["
        THEN LET k == SkipSpace(s, j + 1)
             IN  IF k <= Len(s) /\ s[k] = "]" THEN k + 1
                 ELSE ParseElements(s, j + 1)
        ELSE IF s[j] = "{"
        THEN LET k == SkipSpace(s, j + 1)
             IN  IF k <= Len(s) /\ s[k] = "}" THEN k + 1
                 ELSE ParseMembers(s, j + 1)
        ELSE 0

ParseElements(s, i) ==
    LET e == ParseValue(s, i)
        k == SkipSpace(s, e)
    IN  IF e = 0 \/ k > Len(s) THEN 0
        ELSE IF s[k] = "]" THEN k + 1
        ELSE IF s[k] = "," THEN ParseElements(s, k + 1)
        ELSE 0

ParseMembers(s, i) ==
    LET j == SkipSpace(s, i)
        c == SkipSpace(s, j + 1)
    IN  IF j > Len(s) \/ s[j] # "k" \/ c > Len(s) \/ s[c] # ":" THEN 0
        ELSE LET e == ParseValue(s, c + 1)
                 k == SkipSpace(s, e)
             IN  IF e = 0 \/ k > Len(s) THEN 0
                 ELSE IF s[k] = "}" THEN k + 1
                 ELSE IF s[k] = "," THEN ParseMembers(s, k + 1)
                 ELSE 0

(* The Python type json.loads gives a document that starts with lexeme c.  *)
TypeOf(c) ==
    CASE c = "{" -> "dict"
      [] c = "[" -> "list"
      [] c = "1" -> "int"
      [] OTHER   -> "str"

JSONDecodeError == [called |-> TRUE, kind |-> "JSONDecodeError", doc |-> <<>>]

None == [called |-> TRUE, kind |-> "None", doc |-> <<>>]

(* json.loads(s): the value of the one document s holds, or the error.     *)
Loads(s) ==
    LET e == ParseValue(s, 1)
    IN  IF e # 0 /\ SkipSpace(s, e) = Len(s) + 1
        THEN [called |-> TRUE, kind |-> TypeOf(s[SkipSpace(s, 1)]),
              doc |-> Strip(s)]
        ELSE JSONDecodeError

(* Method 2: the content between the json fence and the next fence.        *)
FencedContent(text) ==
    LET start == Find(text, {FenceJson}, 1) + 1
        end   == Find(text, {Fence, FenceJson}, start)
    IN  IF start = 1 \/ end = 0 THEN JSONDecodeError
        ELSE Loads(Strip(Slice(text, start, end - 1)))

(* The position of the brace that closes the one opened before i.          *)
RECURSIVE ClosingBrace(_, _, _)
ClosingBrace(s, i, brace_count) ==
    IF i > Len(s) THEN 0
    ELSE IF s[i] = "{" THEN ClosingBrace(s, i + 1, brace_count + 1)
    ELSE IF s[i] = "}"
    THEN IF brace_count - 1 = 0 THEN i
         ELSE ClosingBrace(s, i + 1, brace_count - 1)
    ELSE ClosingBrace(s, i + 1, brace_count)

(* Method 3: from the first opening brace to the brace that closes it.     *)
BracedContent(text) ==
    LET start == Find(text, {"{"}, 1)
        end   == IF start = 0 THEN 0 ELSE ClosingBrace(text, start + 1, 1)
    IN  IF end = 0 THEN JSONDecodeError
        ELSE Loads(Slice(text, start, end))

(* Each method returns what json.loads gives; a JSONDecodeError, or a      *)
(* method that does not apply, passes to the next one.                     *)
extract_json_from_response(text) ==
    IF Loads(Strip(text)) # JSONDecodeError THEN Loads(Strip(text))
    ELSE IF FencedContent(text) # JSONDecodeError THEN FencedContent(text)
    ELSE IF BracedContent(text) # JSONDecodeError THEN BracedContent(text)
    ELSE None

----------------------------------------------------------------------------
(* MetaphorAnalyzer.analyze_text and GeminiClient.safe_gemini_request      *)

ExceptionKinds == {"quota", "transport", "AttributeError", "TypeError", "KeyError"}

(* An except clause that names the request errors only.                    *)
Agent1CatchesRequestErrors(kind) == kind \in {"quota", "transport"}

(* except Exception as e                                                   *)
Agent1Catches(kind) == kind \in ExceptionKinds
Agent2Catches(kind) == kind \in ExceptionKinds

(* data[key] in place of data.get(key, []): a missing key raises.          *)
RaisesOnMissingKey(resp) ==
    CASE resp.shape = "error"   -> "transport"
      [] resp.shape = "nondict" -> "AttributeError"
      [] resp.shape = "null"    -> "TypeError"
      [] resp.shape = "missing" -> "KeyError"
      [] resp.shape = "list" /\ ~WellFormed(resp.list) -> "KeyError"
      [] OTHER -> "none"

(* The exception the statements of a try block raise on a response.        *)
Raises(resp) ==
    CASE resp.shape = "error"   -> "transport"
      [] resp.shape = "nondict" -> "AttributeError"
      [] resp.shape = "null"    -> "TypeError"
      [] resp.shape = "list" /\ ~WellFormed(resp.list) -> "KeyError"
      [] OTHER -> "none"

(* data.get(key, [])                                                       *)
GetList(resp) == IF resp.shape = "list" THEN resp.list ELSE <<>>

Agent1Failure(kind) ==
    [success |-> FALSE, error |-> "Agent 1 error: " \o kind]

Agent1ParseFailure ==
    [success |-> FALSE, error |-> "Agent 1 JSON parsing failed"]

NoCandidates ==
    [candidates |-> <<>>, final_metaphors |-> <<>>, agent1_count |-> 0,
     agent2_count |-> 0, success |-> TRUE]

(* The failure dict of agent 2 built like agent 1's, without candidates.   *)
Agent2FailureBare(cands, kind) ==
    [success |-> FALSE, error |-> "Agent 2 error: " \o kind]

Agent2Failure(cands, kind) ==
    [candidates |-> cands, error |-> "Agent 2 error: " \o kind, success |-> FALSE]

Agent2ParseFailure(cands) ==
    [candidates |-> cands, error |-> "Agent 2 JSON parsing failed", success |-> FALSE]

(* The subtraction with its operands exchanged.                            *)
RejectedCountSwapped(cands, finals) == Len(finals) - Len(cands)

RejectedCount(cands, finals) == Len(cands) - Len(finals)

Complete(cands, finals) ==
    [agent1_model |-> Agent1Name, agent2_model |-> Agent2Name,
     candidates |-> cands, final_metaphors |-> finals,
     agent1_count |-> Len(cands), agent2_count |-> Len(finals),
     rejected_count |-> RejectedCount(cands, finals), success |-> TRUE]

(* The pause taken in minutes where the code sleeps seconds.               *)
PauseTimeInMinutes(used) == WindowSeconds * Max(MinPause, PauseBase - used)

PauseTime(used) == Max(MinPause, PauseBase - used)

(* The model_name analyze_text passes with each agent's request.           *)
Agent1Identity == "gemini-2.0-flash"

(* Agent 2's request sent under agent 1's name.                            *)
Agent2IdentityCopied == "gemini-2.0-flash"

Agent2Identity == "gemini-2.5-flash"

PipeLimit == PipeStart + PipeHorizon

(* Leaving analyze_text: a returned dict, or an exception nothing caught.  *)
Return(state, dict) ==
    /\ pc' = state
    /\ result' = dict
    /\ UNCHANGED <<candidates, pause_time>>

Escape ==
    /\ pc' = "Raised"
    /\ UNCHANGED <<candidates, pause_time, result>>

Agent1Except(kind) ==
    IF Agent1Catches(kind) THEN Return("Failed", Agent1Failure(kind)) ELSE Escape

Agent2Except(kind) ==
    IF Agent2Catches(kind) THEN Return("Failed", Agent2Failure(candidates, kind))
    ELSE Escape

(* analyze_text up to the admission of agent 1's request.                  *)
StartRun ==
    /\ pc = "Idle"
    /\ WaitIfNeeded(Agent1Identity, clock, PipeLimit)
    /\ UNCHANGED replies
    /\ IF last'.outcome = "quota"
       THEN /\ Agent1Except("quota")
            /\ events' = <<"denied1">>
       ELSE /\ pc' = "Stage1Requested"
            /\ events' = <<"admit1">>
            /\ UNCHANGED <<candidates, pause_time, result>>

(* Agent 1's generate_content returns or raises after d seconds; the rest  *)
(* of the first try block, the empty-list return and the usage reading.    *)
Stage1Response(resp, d) ==
    /\ pc = "Stage1Requested"
    /\ clock + d <= PipeLimit
    /\ events' = Append(events, "call1")
    /\ replies' = Append(replies, resp)
    /\ IF Raises(resp) # "none"
       THEN /\ Agent1Except(Raises(resp))
            /\ Tick(d, PipeLimit)
       ELSE IF resp.shape = "none"
       THEN /\ Return("Failed", Agent1ParseFailure)
            /\ Tick(d, PipeLimit)
       ELSE IF GetList(resp) = <<>>
       THEN /\ Return("Done", NoCandidates)
            /\ Tick(d, PipeLimit)
       ELSE /\ GetUsageSummary(clock + d)
            /\ candidates' = GetList(resp)
            /\ pause_time' = PauseTime(last'.used)
            /\ pc' = "Cooldown"
            /\ UNCHANGED result

(* time.sleep(pause_time), then the admission of agent 2's request.        *)
Cooldown ==
    /\ pc = "Cooldown"
    /\ WaitIfNeeded(Agent2Identity, clock + pause_time, PipeLimit)
    /\ UNCHANGED replies
    /\ IF last'.outcome = "quota"
       THEN /\ Agent2Except("quota")
            /\ events' = events \o <<"pause", "denied2">>
       ELSE /\ pc' = "Stage2Requested"
            /\ events' = events \o <<"pause", "admit2">>
            /\ UNCHANGED <<candidates, pause_time, result>>

(* Agent 2's generate_content returns or raises after d seconds; the rest  *)
(* of the second try block.                                                *)
Stage2Response(resp, d) ==
    /\ pc = "Stage2Requested"
    /\ Tick(d, PipeLimit)
    /\ events' = Append(events, "call2")
    /\ replies' = Append(replies, resp)
    /\ IF Raises(resp) # "none"
       THEN Agent2Except(Raises(resp))
       ELSE IF resp.shape = "none"
       THEN Return("Failed", Agent2ParseFailure(candidates))
       ELSE Return("Done", Complete(candidates, GetList(resp)))

(* The caller takes the returned dict; analyze_text can be called again.   *)
TakeResult ==
    /\ pc \in {"Done", "Failed"}
    /\ pc' = "Idle"
    /\ candidates' = <<>>
    /\ pause_time' = 0
    /\ result' = NoResult
    /\ events' = <<>>
    /\ replies' = <<>>
    /\ UNCHANGED <<limiterVars, threadVars, jsonVars>>

----------------------------------------------------------------------------
(* The limiter driven by one sequential caller over a few minutes          *)

Init == InitAt(StartTime, 0)

Admit ==
    /\ \E m \in ModelNames : WaitIfNeeded(m, clock, StartTime + Horizon)
    /\ UNCHANGED pipeVars

Summary ==
    /\ GetUsageSummary(clock)
    /\ UNCHANGED pipeVars

Advance ==
    /\ \E d \in TickDeltas : Tick(d, StartTime + Horizon)
    /\ UNCHANGED pipeVars

Next == Admit \/ Summary \/ Advance

Spec == Init /\ [][Next]_vars

----------------------------------------------------------------------------
(* The limiter driven through a whole day's quota by a caller that uses    *)
(* the default model name and pauses only when the minute's window is full *)
(* or the day's quota is spent                                             *)

DayInit == InitAt(DayStart, 0)

DayAdmit ==
    /\ WaitIfNeeded(Agent2Name, clock, DayStart + DayHorizon)
    /\ UNCHANGED pipeVars

Saturated ==
    Len(request_times) >= COMBINED_RPM \/ QuotaReached(daily_requests)

DayAdvance ==
    /\ Saturated
    /\ \E d \in DayDeltas : Tick(d, DayStart + DayHorizon)
    /\ UNCHANGED pipeVars

DayNext == DayAdmit \/ Summary \/ DayAdvance

SpecDay == DayInit /\ [][DayNext]_vars

----------------------------------------------------------------------------
(* The limiter driven by a caller that makes a few calls a minute and may  *)
(* stay idle for a day or two                                              *)

LongDeltas == {DaySeconds, DaySeconds + WindowSeconds \div 2}

IdleLimit == StartTime + IdleHorizon

IdleAdmit ==
    /\ RpmUsed(request_times, clock) < MaxBurst
    /\ \E m \in ModelNames : WaitIfNeeded(m, clock, IdleLimit)
    /\ UNCHANGED pipeVars

IdleAdvance ==
    /\ \E d \in LongDeltas : Tick(d, IdleLimit)
    /\ UNCHANGED pipeVars

IdleNext == IdleAdmit \/ Summary \/ IdleAdvance

SpecIdle == Init /\ [][IdleNext]_vars

----------------------------------------------------------------------------
(* One analyzer running texts one after the other, either from its         *)
(* construction or after PriorRuns complete two-agent runs made earlier    *)
(* in the same day                                                         *)

PipeInit == \E runs \in {0, PriorRuns} : InitAt(PipeStart, runs)

Agent1Replies == \E r \in Agent1Responses, d \in CallSeconds : Stage1Response(r, d)

Agent2Replies == \E r \in Agent2Responses, d \in CallSeconds : Stage2Response(r, d)

Rest ==
    /\ pc = "Idle"
    /\ \E d \in IdleDeltas : Tick(d, PipeLimit)
    /\ UNCHANGED pipeVars

PipeNext ==
    \/ StartRun
    \/ Agent1Replies
    \/ Cooldown
    \/ Agent2Replies
    \/ TakeResult
    \/ Rest

SpecPipe == PipeInit /\ [][PipeNext]_vars

----------------------------------------------------------------------------
(* The analyzer's runs under the assumption that every model call returns  *)
(* or raises and every sleep ends.  A run starts only while the explored   *)
(* time leaves room for its longest course: two admission waits, two model *)
(* calls and the pause.  The responses are one of each kind: every shape,  *)
(* and for a list an empty one, one with a malformed item and a            *)
(* well-formed one.                                                        *)

Malformed == <<0>>

LiveAgent1Replies ==
    \E r \in Responses({<<>>, Malformed, FourCandidates}), d \in CallSeconds :
        Stage1Response(r, d)

LiveAgent2Replies ==
    \E r \in Responses({<<>>, Malformed, TwoApproved}), d \in CallSeconds :
        Stage2Response(r, d)

LongestCall == CHOOSE d \in CallSeconds : \A e \in CallSeconds : e <= d

RunSeconds ==
    2 * (WindowSeconds + SleepBuffer) + 2 * LongestCall + PauseBase

LiveInit ==
    \E runs \in {0, PriorRuns} : InitAt(PipeLimit - LiveHorizon, runs)

LiveStartRun ==
    /\ clock + RunSeconds <= PipeLimit
    /\ StartRun

LiveNext ==
    \/ LiveStartRun
    \/ LiveAgent1Replies
    \/ Cooldown
    \/ LiveAgent2Replies
    \/ TakeResult
    \/ Rest

SpecPipeLive ==
    /\ LiveInit
    /\ [][LiveNext]_vars
    /\ WF_vars(LiveAgent1Replies)
    /\ WF_vars(Cooldown)
    /\ WF_vars(LiveAgent2Replies)

----------------------------------------------------------------------------
(* The extractor applied to one response text                              *)

Receive ==
    /\ response_text = <<>>
    /\ parsed_json = NotParsed
    /\ response_text' \in Texts
    /\ UNCHANGED <<limiterVars, pipeVars, threadVars, parsed_json>>

Extract ==
    /\ parsed_json = NotParsed
    /\ parsed_json' = extract_json_from_response(response_text)
    /\ UNCHANGED <<limiterVars, pipeVars, threadVars, response_text>>

ExtractNext == Receive \/ Extract

SpecExtract == Init /\ [][ExtractNext]_vars

----------------------------------------------------------------------------
(* Threads calling wait_if_needed and get_usage_summary at the same time,  *)
(* one step per access to the shared deque.  wait_if_needed runs under     *)
(* self.lock; get_usage_summary takes no lock.                             *)

ThreadDeltas == {WindowSeconds + SleepBuffer}
ThreadLimit == StartTime + ThreadHorizon

Goto(t, label) == tpc' = [tpc EXCEPT ![t] = label]

Shared == <<request_times, daily_requests, daily_reset_time, model_requests>>
History == <<granted, since_reset, last>>

(* with self.lock:                                                         *)
AcquireLock(t) ==
    /\ tpc[t] = "idle"
    /\ lock = 0
    /\ lock' = t
    /\ Goto(t, "a_enter")
    /\ UNCHANGED <<clock, Shared, History, pipeVars, jsonVars, tnow, twake>>

(* now, the daily reset and the daily check of wait_if_needed.             *)
EnterAdmit(t) ==
    LET now   == clock
        due   == ResetDue(now, daily_reset_time)
        daily == DailyAfterReset(due, daily_requests)
    IN  /\ tpc[t] = "a_enter"
        /\ tnow' = [tnow EXCEPT ![t] = now]
        /\ daily_requests' = daily
        /\ daily_reset_time' = IF due THEN NextMidnight(now) ELSE daily_reset_time
        /\ model_requests' = CountsAfterReset(due, model_requests)
        /\ IF QuotaReached(daily)
           THEN lock' = 0 /\ Goto(t, "idle")
           ELSE lock' = lock /\ Goto(t, "a_test")
        /\ UNCHANGED <<clock, request_times, History, pipeVars, jsonVars, twake>>

(* now and cutoff_time of get_usage_summary.                               *)
EnterSummary(t) ==
    /\ tpc[t] = "idle"
    /\ tnow' = [tnow EXCEPT ![t] = clock]
    /\ Goto(t, "s_test")
    /\ UNCHANGED <<clock, Shared, History, pipeVars, jsonVars, lock, twake>>

(* An IndexError leaves the call; the with statement releases the lock.    *)
IndexError(t) ==
    /\ Goto(t, "IndexError")
    /\ lock' = IF lock = t THEN 0 ELSE lock

(* while self.request_times ...                                            *)
LoopTest(t, here, peek, exit) ==
    /\ tpc[t] = here
    /\ Goto(t, IF request_times # <<>> THEN peek ELSE exit)
    /\ UNCHANGED <<clock, Shared, History, pipeVars, jsonVars, lock, tnow, twake>>

(* ... and self.request_times[0] < cutoff_time:                            *)
LoopPeek(t, here, pop, exit) ==
    /\ tpc[t] = here
    /\ IF request_times = <<>>
       THEN IndexError(t)
       ELSE /\ Goto(t, IF Head(request_times) < tnow[t] - WindowSeconds
                       THEN pop ELSE exit)
            /\ UNCHANGED lock
    /\ UNCHANGED <<clock, Shared, History, pipeVars, jsonVars, tnow, twake>>

(* self.request_times.popleft()                                            *)
LoopPop(t, here, test) ==
    /\ tpc[t] = here
    /\ IF request_times = <<>>
       THEN IndexError(t) /\ UNCHANGED request_times
       ELSE /\ request_times' = Tail(request_times)
            /\ Goto(t, test)
            /\ UNCHANGED lock
    /\ UNCHANGED <<clock, daily_requests, daily_reset_time, model_requests,
                   History, pipeVars, jsonVars, tnow, twake>>

(* if len(self.request_times) >= COMBINED_LIMITS['rpm']:                   *)
CheckLimit(t) ==
    /\ tpc[t] = "a_limit"
    /\ Goto(t, IF Len(request_times) >= COMBINED_RPM THEN "a_head" ELSE "a_append")
    /\ UNCHANGED <<clock, Shared, History, pipeVars, jsonVars, lock, tnow, twake>>

(* wait_time = 60 - (now - self.request_times[0]).total_seconds()          *)
ReadHead(t) ==
    /\ tpc[t] = "a_head"
    /\ IF request_times = <<>>
       THEN IndexError(t) /\ UNCHANGED twake
       ELSE LET wait == WaitTime(request_times, tnow[t])
            IN  /\ twake' = [twake EXCEPT ![t] = clock + wait + SleepBuffer]
                /\ Goto(t, IF wait > 0 THEN "a_sleep" ELSE "a_append")
                /\ UNCHANGED lock
    /\ UNCHANGED <<clock, Shared, History, pipeVars, jsonVars, tnow>>

(* time.sleep(wait_time + 1) has ended.                                    *)
Wake(t) ==
    /\ tpc[t] = "a_sleep"
    /\ clock >= twake[t]
    /\ Goto(t, "a_append")
    /\ UNCHANGED <<clock, Shared, History, pipeVars, jsonVars, lock, tnow, twake>>

(* Register new request, track by model, leave the with block.             *)
Register(t, model) ==
    /\ tpc[t] = "a_append"
    /\ Len(request_times) < MaxWindow
    /\ request_times' = Append(request_times, tnow[t])
    /\ daily_requests' = daily_requests + 1
    /\ model_requests' = Track(model_requests, model)
    /\ lock' = 0
    /\ Goto(t, "idle")
    /\ UNCHANGED <<clock, daily_reset_time, History, pipeVars, jsonVars, tnow, twake>>

(* return {...} of get_usage_summary.                                      *)
ReturnSummary(t) ==
    /\ tpc[t] = "s_ret"
    /\ Goto(t, "idle")
    /\ UNCHANGED <<clock, Shared, History, pipeVars, jsonVars, lock, tnow, twake>>

ThreadAdmits ==
    \E t \in Threads :
        \/ AcquireLock(t)
        \/ EnterAdmit(t)
        \/ LoopTest(t, "a_test", "a_peek", "a_limit")
        \/ LoopPeek(t, "a_peek", "a_pop", "a_limit")
        \/ LoopPop(t, "a_pop", "a_test")
        \/ CheckLimit(t)
        \/ ReadHead(t)
        \/ Wake(t)
        \/ Register(t, Agent2Name)

ThreadSummarises ==
    \E t \in Threads :
        \/ EnterSummary(t)
        \/ LoopTest(t, "s_test", "s_peek", "s_ret")
        \/ LoopPeek(t, "s_peek", "s_pop", "s_ret")
        \/ LoopPop(t, "s_pop", "s_test")
        \/ ReturnSummary(t)

ThreadAdvance ==
    /\ \E d \in ThreadDeltas : clock + d <= ThreadLimit /\ clock' = clock + d
    /\ UNCHANGED <<Shared, History, pipeVars, jsonVars, threadVars>>

ThreadNext == ThreadAdmits \/ ThreadSummarises \/ ThreadAdvance

SpecThreads == Init /\ [][ThreadNext]_vars

----------------------------------------------------------------------------
(* Claims about the rate limiter                                           *)

Admitted == last.op = "admit" /\ last.outcome = "admitted"
Refused == last.op = "admit" /\ last.outcome = "quota"

(* C1: in every interval of 60 seconds the number of admissions granted    *)
(* (calls that returned, blocking ones included) is at most the combined   *)
(* per-minute ceiling.  granted holds the return instants that lie in the  *)
(* 60 seconds ending now.                                                  *)
C1_MinuteCeiling == Len(granted) <= COMBINED_RPM

C3_QuotaUntilReset ==
    /\ (last.op = "admit" /\ last.daily >= COMBINED_RPD /\ last.now < last.reset)
          => /\ last.outcome = "quota"
             /\ last.ret = last.now
             /\ request_times = last.window
             /\ daily_requests = last.daily
    /\ (last.op = "admit" /\ last.daily >= COMBINED_RPD /\ last.now >= last.reset)
          => /\ last.outcome = "admitted"
             /\ daily_requests = 1

C3_Witness ==
    /\ Admitted
    /\ last.daily = COMBINED_RPD
    /\ last.now >= last.reset
    /\ since_reset = 1

(* C9: an admit call that finds the ceiling's worth of timestamps younger  *)
(* than 60 seconds in the window returns no earlier than 60 seconds plus   *)
(* the safety margin after the oldest of those timestamps.                 *)
C9_BlocksUntilAged ==
    LET young == Trailing(last.window, last.now)
    IN  (Admitted /\ Len(young) >= COMBINED_RPM)
            => last.ret >= Head(young) + WindowSeconds + SleepBuffer

(* C11: right after a successful admit the number of stored timestamps     *)
(* that get_usage_summary would count at the return instant is at most the *)
(* combined per-minute ceiling, whichever path the admit took.             *)
C11_WindowCeiling ==
    (Admitted /\ clock = last.ret)
        => RpmUsed(request_times, clock) <= COMBINED_RPM

(* The entries of a window that are not older than 60 seconds at now.      *)
NotOlder(times, now) ==
    SelectSeq(times, LAMBDA stamp : stamp >= now - WindowSeconds)

(* C13: get_usage_summary leaves the daily counter, the per-model          *)
(* counters and the reset instant as they were and keeps every window      *)
(* entry not older than 60 seconds, removing the older ones only; a second *)
(* call at the same instant returns the same summary as the first.         *)
C13_SummaryOnlyPrunes ==
    last.op = "summary"
        => /\ daily_requests = last.daily
           /\ model_requests = last.counts
           /\ daily_reset_time = last.reset
           /\ request_times = NotOlder(last.window, last.now)
           /\ last.prior # <<>> => last.summary = last.prior

C13_Witness ==
    /\ last.op = "summary"
    /\ last.prior # <<>>
    /\ last.summary[1].combined.rpm_used = COMBINED_RPM
    /\ last.summary[1].by_model[Agent1Name] > 0
    /\ Head(request_times) = last.now - WindowSeconds

(* A limiter call was made at or past the reset instant it found stored.   *)
FoundResetDue == last.op = "admit" /\ last.now >= last.reset

(* C14 as claimed: the admit call that finds the current instant at or     *)
(* past the stored reset instant replaces the stored reset instant by that *)
(* instant plus 24 hours.                                                  *)
C14_ResetPlusDay ==
    FoundResetDue => daily_reset_time = last.reset + DaySeconds

(* C14 as amended: such a call zeroes the daily counter and the per-model  *)
(* counters before its quota check, so it is admitted and leaves them      *)
(* counting itself alone, and stores as reset instant the first midnight   *)
(* after the instant it observed; every other call and step leaves the     *)
(* reset instant as it was.                                                *)
C14_ResetAtNextMidnight ==
    [][IF last' # last /\ last'.op = "admit" /\ last'.now >= daily_reset_time
       THEN /\ last'.outcome = "admitted"
            /\ daily_requests' = 1
            /\ model_requests' =
                   [k \in KnownModels |-> IF k = last'.model THEN 1 ELSE 0]
            /\ daily_reset_time' % DaySeconds = 0
            /\ daily_reset_time' > last'.now
            /\ daily_reset_time' - DaySeconds <= last'.now
       ELSE daily_reset_time' = daily_reset_time]_vars

C14_Witness ==
    /\ FoundResetDue
    /\ last.now >= last.reset + DaySeconds
    /\ last.daily > 0
    /\ daily_requests = 1
    /\ daily_reset_time = last.reset + 2 * DaySeconds

(* C15: a successful admit appends exactly one timestamp, the instant it   *)
(* observed, to the window its prune left, and adds exactly 1 to the daily *)
(* counter (counted from zero when the call made the daily reset); it adds *)
(* exactly 1 to the per-model counter of its model when that is one of the *)
(* two recognized models and changes no other per-model counter, so an     *)
(* unrecognized model still takes its unit of the minute and day budgets.  *)
C15_AdmitCountsOnce ==
    Admitted =>
        LET due  == last.now >= last.reset
            base == IF due THEN 0 ELSE last.daily
            was  == [k \in KnownModels |-> IF due THEN 0 ELSE last.counts[k]]
        IN  /\ request_times = Append(NotOlder(last.window, last.now), last.now)
            /\ daily_requests = base + 1
            /\ DOMAIN model_requests = KnownModels
            /\ \A k \in KnownModels :
                  model_requests[k] = was[k] + (IF k = last.model THEN 1 ELSE 0)

C15_Witness ==
    /\ Admitted
    /\ last.model \notin KnownModels
    /\ last.counts[Agent1Name] > 0
    /\ model_requests = last.counts
    /\ daily_requests = last.daily + 1
    /\ Len(request_times) = Len(last.window) + 1

(* C19: an admit call that fails with the daily quota error leaves the     *)
(* window (nothing appended, nothing pruned), the daily counter, the       *)
(* per-model counters and the reset instant as it found them.              *)
C19_RefusalChangesNothing ==
    Refused
        => /\ request_times = last.window
           /\ daily_requests = last.daily
           /\ model_requests = last.counts
           /\ daily_reset_time = last.reset

C19_Witness ==
    /\ Refused
    /\ daily_requests = COMBINED_RPD
    /\ model_requests[Agent2Name] = COMBINED_RPD
    /\ request_times # <<>>
    /\ Head(request_times) < last.now - WindowSeconds

SumOfCounts == model_requests[Agent1Name] + model_requests[Agent2Name]

(* C20: the per-model counters add up to at most the daily counter, and to *)
(* exactly the daily counter when and only when every admission since the  *)
(* last daily reset went to a recognized model; the difference is the      *)
(* number of admissions since that reset that went to other names.         *)
C20_CountsWithinDaily ==
    /\ SumOfCounts <= daily_requests
    /\ SumOfCounts = daily_requests <=> last.strangers = 0
    /\ daily_requests - SumOfCounts = last.strangers

C20_Witness ==
    /\ daily_reset_time > NextMidnight(StartTime)
    /\ last.strangers > 0
    /\ SumOfCounts > 0
    /\ SumOfCounts < daily_requests

----------------------------------------------------------------------------
(* Claims about the pipeline                                               *)

Has(event) == \E i \in 1..Len(events) : events[i] = event

Reply1 == replies[1]
Reply2 == replies[2]

(* The reply is an object whose list is missing or empty.                  *)
EmptyReply(r) == r.shape \in {"missing", "list"} /\ r.list = <<>>

(* The reply is an object with a non-empty list of well-formed items.      *)
ListReply(r) == r.shape = "list" /\ r.list # <<>> /\ WellFormed(r.list)

(* The stage's model call failed or its reply could not be used.           *)
BadReply(r) ==
    \/ r.shape \in {"error", "none", "nondict", "null"}
    \/ r.shape = "list" /\ ~WellFormed(r.list)

Stage1Failed == Has("denied1") \/ (Len(replies) >= 1 /\ BadReply(Reply1))
Stage2Failed == Has("denied2") \/ (Len(replies) >= 2 /\ BadReply(Reply2))

(* C4: analyze_text never raises; it returns a result, and when a stage    *)
(* failed (admission denied, transport error, no JSON object, unexpected   *)
(* shape) the result has success = false and a non-empty error.            *)
C4_NeverRaises ==
    /\ pc # "Raised"
    /\ (Stage1Failed \/ Stage2Failed)
          => /\ pc = "Failed"
             /\ "success" \in DOMAIN result /\ result.success = FALSE
             /\ "error" \in DOMAIN result /\ result.error # ""

C4_Witness ==
    /\ pc = "Failed"
    /\ Len(replies) = 2 /\ Reply2.shape = "list" /\ ~WellFormed(Reply2.list)
    /\ result.error = "Agent 2 error: KeyError"

C6_PartialResultKept ==
    (Len(replies) >= 1 /\ ListReply(Reply1) /\ Stage2Failed)
        => /\ pc = "Failed"
           /\ result.success = FALSE
           /\ "candidates" \in DOMAIN result
           /\ result.candidates = Reply1.list

C6_Witness ==
    /\ pc = "Failed"
    /\ Has("denied2")
    /\ Reply1.list = FourCandidates
    /\ result.candidates = FourCandidates

(* C7: when both stages succeed the result has success = true, both model  *)
(* names, agent1_count and agent2_count the lengths of the two lists,      *)
(* rejected_count their difference, and final_metaphors agent 2's list as  *)
(* returned.                                                               *)
C7_CompleteResult ==
    (Len(replies) = 2 /\ ListReply(Reply1) /\ ~BadReply(Reply2))
        => /\ pc = "Done"
           /\ result.success = TRUE
           /\ result.agent1_model = Agent1Name
           /\ result.agent2_model = Agent2Name
           /\ result.candidates = Reply1.list
           /\ result.final_metaphors = Reply2.list
           /\ result.agent1_count = Len(Reply1.list)
           /\ result.agent2_count = Len(Reply2.list)
           /\ result.rejected_count = Len(Reply1.list) - Len(Reply2.list)

C7_Witness ==
    /\ pc = "Done"
    /\ Len(replies) = 2
    /\ Reply1.list = FourCandidates /\ Reply2.list = TwoApproved
    /\ result.rejected_count = 2
    /\ result.final_metaphors = <<3, 1>>

(* C8 as claimed: the pause between the agents is                          *)
(* max(minimum pause, combined per-minute ceiling - usage), usage being    *)
(* the rpm_used that get_usage_summary reported after stage 1.             *)
C8_PauseFromCeiling ==
    pc = "Cooldown" => pause_time = Max(MinPause, COMBINED_RPM - last.used)

(* The admissions asked for in the current run, granted or denied.         *)
Admissions ==
    Cardinality({i \in 1..Len(events) :
                    events[i] \in {"admit1", "denied1", "admit2", "denied2"}})

(* The events of a run are a prefix of admit1, call1, pause, admit2,       *)
(* call2, or such a prefix ended by a denied admission; a finished run     *)
(* whose stage 1 failed or listed nothing asked for one admission.         *)
EventsInOrder ==
    /\ events \in {<<>>, <<"denied1">>, <<"admit1">>, <<"admit1", "call1">>,
                    <<"admit1", "call1", "pause", "denied2">>,
                    <<"admit1", "call1", "pause", "admit2">>,
                    <<"admit1", "call1", "pause", "admit2", "call2">>}
    /\ Admissions <= 2
    /\ (pc \in {"Done", "Failed"}
           /\ (Stage1Failed \/ (Len(replies) >= 1 /\ EmptyReply(Reply1))))
          => Admissions = 1
    /\ Has("pause") => ListReply(Reply1) /\ candidates = Reply1.list

(* One step of a run adds the next event only: an admission asked under    *)
(* the stage's own identity, a model call after a granted admission, the   *)
(* pause and the second admission once stage 1 has listed candidates and   *)
(* the pause has run its time.                                             *)
EventStep ==
    events' # events =>
        \/ /\ events = <<>>
           /\ last'.op = "admit" /\ last'.model = "gemini-2.0-flash"
           /\ events' = IF last'.outcome = "admitted"
                         THEN <<"admit1">> ELSE <<"denied1">>
        \/ /\ events = <<"admit1">>
           /\ events' = <<"admit1", "call1">>
        \/ /\ events = <<"admit1", "call1">>
           /\ pc = "Cooldown" /\ candidates # <<>>
           /\ pause_time >= MinPause
           /\ last'.op = "admit" /\ last'.model = "gemini-2.5-flash"
           /\ last'.now = clock + pause_time
           /\ events' = events \o (IF last'.outcome = "admitted"
                                    THEN <<"pause", "admit2">>
                                    ELSE <<"pause", "denied2">>)
        \/ /\ events = <<"admit1", "call1", "pause", "admit2">>
           /\ events' = Append(events, "call2")
        \/ /\ pc \in {"Done", "Failed"}
           /\ events' = <<>>

(* C16: within one run the events come in order and once each: a model     *)
(* call only after its own admission was granted, the stage-2 admission    *)
(* only after stage 1 gave a non-empty candidate list and the cooldown     *)
(* ended, stage 1 admitted as gemini-2.0-flash and stage 2 as              *)
(* gemini-2.5-flash, no stage retried, so at most two admissions and       *)
(* exactly one when stage 1 fails or lists no candidates.                  *)
C16_OrderedEvents == []EventsInOrder /\ [][EventStep]_vars

C16_Witness ==
    /\ pc = "Done"
    /\ events = <<"admit1", "call1", "pause", "admit2", "call2">>
    /\ last.op = "admit" /\ last.model = "gemini-2.5-flash"
    /\ last.counts[Agent1Name] = last.counts[Agent2Name] + 1
    /\ Admissions = 2

Items(list) == {list[i] : i \in 1..Len(list)}

(* C17: in every result with success = true the approved list holds        *)
(* candidates of stage 1 only, agent2_count is at most agent1_count and    *)
(* rejected_count, where present, is not negative.                         *)
C17_ApprovedAreCandidates ==
    (pc = "Done" /\ result.success)
        => /\ Items(result.final_metaphors) \subseteq Items(result.candidates)
           /\ result.agent2_count <= result.agent1_count
           /\ "rejected_count" \in DOMAIN result => result.rejected_count >= 0

InRun == pc \in {"Stage1Requested", "Cooldown", "Stage2Requested"}

Ended == pc \in {"Done", "Failed"}

(* An admit call raises the quota error at once or returns within the      *)
(* window plus the safety margin; the pause is at most PauseBase seconds.  *)
BoundedWait ==
    /\ last.op = "admit"
          => \/ last.outcome = "quota" /\ last.ret = last.now
             \/ /\ last.outcome = "admitted"
                /\ last.ret - last.now <= WindowSeconds + SleepBuffer
    /\ pause_time <= PauseBase

(* An ended run stays ended until the caller takes its result.             *)
StaysEnded == Ended => pc' \in {pc, "Idle"}

(* C18: every run that has started reaches Done or Failed and stays there: *)
(* each model call returning or raising, no run stays in Stage1Requested,  *)
(* Cooldown or Stage2Requested for ever, and an admit call returns after a *)
(* bounded wait or raises the quota error.                                 *)
C18_RunsEnd ==
    /\ []BoundedWait
    /\ [][StaysEnded]_vars
    /\ InRun ~> Ended

C18_Witness ==
    /\ pc = "Failed"
    /\ events = <<"admit1", "call1">>
    /\ last.op = "admit" /\ last.ret > last.now

----------------------------------------------------------------------------
(* Claims about the extractor                                              *)

HasBrace(text) == \E i \in 1..Len(text) : text[i] = "{"

(* C12: for every text with no opening brace in it the extractor returns   *)
(* None and raises nothing, texts that are JSON scalars or arrays and      *)
(* fenced blocks without an object included.                               *)
C12_NoBraceGivesNone ==
    (parsed_json.called /\ ~HasBrace(response_text)) => parsed_json = None

----------------------------------------------------------------------------
(* Claims about concurrent callers                                         *)

(* The thread is between its first and its last access to the window.      *)
InWindow(t) ==
    tpc[t] \in {"a_test", "a_peek", "a_pop", "a_limit", "a_head", "a_sleep",
                "a_append", "s_test", "s_peek", "s_pop", "s_ret"}

(* C10: wait_if_needed and get_usage_summary exclude each other on the     *)
(* window: no two threads are inside their window accesses at once, and no *)
(* thread indexes or pops a window another thread has emptied.             *)
C10_Serialized ==
    /\ \A t, u \in Threads : (t # u /\ InWindow(t)) => ~InWindow(u)
    /\ \A t \in Threads : tpc[t] # "IndexError"

====
